---- MODULE Spec2Model ----
(***************************************************************************)
(* MiniVSFS: the image initializer (mkfs_builder.c) and the entry inserter *)
(* (mkfs_adder.c) as a state machine over the image file.                  *)
(*                                                                         *)
(* The image is kept as its typed views (superblock, bitmaps, inode table, *)
(* data region); the byte encodings of the packed structs are produced by  *)
(* SbBytes / InodeBytes / DirentBytes where a checksum needs them.         *)
(* 32-bit checksums are kept as their four little-endian bytes.            *)
(***************************************************************************)
EXTENDS Integers, Sequences, FiniteSets, TLC

\* ------------------------------------------------------------------------
\* Program constants
\* ------------------------------------------------------------------------
BS == 4096
INODE_SIZE == 128
ROOT_INO == 1
DIRECT_MAX == 12
MAGIC == 1297503046           \* 0x4D565346
SB_SIZE == 116                \* sizeof(superblock_t), packed
DIRENT_SIZE == 64             \* sizeof(dirent64_t)
NAME_LEN == 58                \* sizeof(((dirent64_t*)0)->name)
MODE_DIR == 16384             \* 0040000
MODE_FILE == 32768            \* 0100000
PROJ_ID == 14

\* ------------------------------------------------------------------------
\* Bounds of the model
\* ------------------------------------------------------------------------
MaxFiles == 3                 \* successful inserts followed per image
MkfsOver == 1                 \* the initializer runs over images of fewer inserts
Epoch == 1700000000           \* time(NULL) at the first run

\* ------------------------------------------------------------------------
\* Bytes and little-endian encoding
\* ------------------------------------------------------------------------
RECURSIVE XorBits(_, _, _)
XorBits(a, b, n) ==
  IF n = 0 THEN 0
  ELSE ((a + b) % 2) + 2 * XorBits(a \div 2, b \div 2, n - 1)

\* The lookup tables are merged with the empty function so that they are held
\* as explicit tables and not recomputed at every application.
XorTab == [a \in 0..15 |-> [b \in 0..15 |-> XorBits(a, b, 4)] @@ <<>>] @@ <<>>

Xor8Tab ==
  [a \in 0..255 |->
     [b \in 0..255 |->
        XorTab[a \div 16][b \div 16] * 16 + XorTab[a % 16][b % 16]] @@ <<>>] @@ <<>>

Xor8(a, b) == Xor8Tab[a][b]

Xor16(a, b) == Xor8(a \div 256, b \div 256) * 256 + Xor8(a % 256, b % 256)

RECURSIVE LE(_, _)
LE(v, n) == IF n = 0 THEN <<>> ELSE <<v % 256>> \o LE(v \div 256, n - 1)

Zeros(n) == [i \in 1..n |-> 0]

\* ------------------------------------------------------------------------
\* CRC-32 (both programs carry the same table and loop)
\* ------------------------------------------------------------------------
RECURSIVE crc32_init_bit(_, _)
crc32_init_bit(c, j) ==
  IF j = 0 THEN c
  ELSE LET sh == <<c[1] \div 2, (c[1] % 2) * 32768 + c[2] \div 2>>
       IN crc32_init_bit(IF c[2] % 2 = 1
                           THEN <<Xor16(60856, sh[1]), Xor16(33568, sh[2])>>
                           ELSE sh,
                         j - 1)

CRC32_TAB ==
  [i \in 0..255 |->
     LET c == crc32_init_bit(<<0, i>>, 8)
     IN <<c[2] % 256, c[2] \div 256, c[1] % 256, c[1] \div 256>>] @@ <<>>

crc32_step(c, b) ==
  LET t == CRC32_TAB[Xor8(c[1], b)]
  IN <<Xor8(t[1], c[2]), Xor8(t[2], c[3]), Xor8(t[3], c[4]), t[4]>>

RECURSIVE crc32_update(_, _, _, _)
crc32_update(c, p, lo, hi) ==
  IF lo > hi THEN c
  ELSE IF lo = hi THEN crc32_step(c, p[lo])
  ELSE LET mid == (lo + hi) \div 2
           left == crc32_update(c, p, lo, mid)
       IN IF left[1] < 0 THEN left ELSE crc32_update(left, p, mid + 1, hi)

crc32(p, n) ==
  LET c == crc32_update(<<255, 255, 255, 255>>, p, 1, n)
  IN <<255 - c[1], 255 - c[2], 255 - c[3], 255 - c[4]>>

\* ------------------------------------------------------------------------
\* On-disk structures
\* ------------------------------------------------------------------------
ZeroSb ==
  [magic |-> 0, version |-> 0, block_size |-> 0, total_blocks |-> 0,
   inode_count |-> 0, inode_bitmap_start |-> 0, inode_bitmap_blocks |-> 0,
   data_bitmap_start |-> 0, data_bitmap_blocks |-> 0,
   inode_table_start |-> 0, inode_table_blocks |-> 0,
   data_region_start |-> 0, data_region_blocks |-> 0, root_inode |-> 0,
   mtime_epoch |-> 0, flags |-> 0, checksum |-> <<0, 0, 0, 0>>]

SbBytes(sb) ==
  LE(sb.magic, 4) \o LE(sb.version, 4) \o LE(sb.block_size, 4)
  \o LE(sb.total_blocks, 8) \o LE(sb.inode_count, 8)
  \o LE(sb.inode_bitmap_start, 8) \o LE(sb.inode_bitmap_blocks, 8)
  \o LE(sb.data_bitmap_start, 8) \o LE(sb.data_bitmap_blocks, 8)
  \o LE(sb.inode_table_start, 8) \o LE(sb.inode_table_blocks, 8)
  \o LE(sb.data_region_start, 8) \o LE(sb.data_region_blocks, 8)
  \o LE(sb.root_inode, 8) \o LE(sb.mtime_epoch, 8) \o LE(sb.flags, 4)
  \o sb.checksum

ZeroInode ==
  [mode |-> 0, links |-> 0, uid |-> 0, gid |-> 0, size_bytes |-> 0,
   atime |-> 0, mtime |-> 0, ctime |-> 0,
   direct |-> [i \in 1..DIRECT_MAX |-> 0],
   reserved_0 |-> 0, reserved_1 |-> 0, reserved_2 |-> 0,
   proj_id |-> 0, uid16_gid16 |-> 0, xattr_ptr |-> 0,
   inode_crc |-> <<0, 0, 0, 0, 0, 0, 0, 0>>]

RECURSIVE DirectBytes(_, _)
DirectBytes(d, i) ==
  IF i > DIRECT_MAX THEN <<>> ELSE LE(d[i], 4) \o DirectBytes(d, i + 1)

InodeBytes(ino) ==
  LE(ino.mode, 2) \o LE(ino.links, 2) \o LE(ino.uid, 4) \o LE(ino.gid, 4)
  \o LE(ino.size_bytes, 8) \o LE(ino.atime, 8) \o LE(ino.mtime, 8)
  \o LE(ino.ctime, 8) \o DirectBytes(ino.direct, 1)
  \o LE(ino.reserved_0, 4) \o LE(ino.reserved_1, 4) \o LE(ino.reserved_2, 4)
  \o LE(ino.proj_id, 4) \o LE(ino.uid16_gid16, 4) \o LE(ino.xattr_ptr, 8)
  \o ino.inode_crc

ZeroDirent ==
  [inode_no |-> 0, type |-> 0, name |-> Zeros(NAME_LEN), checksum |-> 0]

DirentBytes(de) ==
  LE(de.inode_no, 4) \o <<de.type>> \o de.name \o <<de.checksum>>

\* A data-region block is either viewed as 64 directory entries or holds
\* bytes [off, off+n) of the file with content seed fid followed by zeros.
DirBlock(dent) == [kind |-> "dirents", dent |-> dent, fid |-> 0, off |-> 0, n |-> 0]

FileBlock(fid, off, n) == [kind |-> "bytes", dent |-> <<>>, fid |-> fid, off |-> off, n |-> n]

\* Byte p (from 0) of the file with content seed fid.
FileByte(fid, p) == (fid + p + (p \div BS)) % 256

\* Byte j (from 0) of a block that holds file bytes.
BlockByte(blk, j) == IF j < blk.n THEN FileByte(blk.fid, blk.off + j) ELSE 0

\* The image file.  nbytes is its length; inode_bm / data_bm are the sets of
\* set bit indices of the bitmap blocks; itab and data map the written
\* slots / blocks, every other slot or block being zero.
NoImage ==
  [exists |-> FALSE, nbytes |-> 0, sb |-> ZeroSb, inode_bm |-> {}, data_bm |-> {},
   itab |-> <<>>, data |-> <<>>]

InodeAt(img, i) == IF i \in DOMAIN img.itab THEN img.itab[i] ELSE ZeroInode

\* ------------------------------------------------------------------------
\* Checksum routines
\* ------------------------------------------------------------------------
\* mkfs_builder.c hashes BS-4 bytes starting at the 116-byte local sb: the
\* bytes past the struct are whatever the stack holds there (stack).
builder_superblock_crc_finalize(sb, stack) ==
  LET z == [sb EXCEPT !.checksum = <<0, 0, 0, 0>>]
  IN [z EXCEPT !.checksum = crc32(SbBytes(z) \o stack, BS - 4)]

\* mkfs_adder.c hashes sizeof(*sb) bytes of the buffer's block 0.
adder_superblock_crc_finalize(sb) ==
  LET z == [sb EXCEPT !.checksum = <<0, 0, 0, 0>>]
  IN [z EXCEPT !.checksum = crc32(SbBytes(z), SB_SIZE)]

\* mkfs_builder.c: copy, zero bytes 120..127, hash 120 bytes.
builder_inode_crc_finalize(ino) ==
  LET b == InodeBytes(ino)
      tmp == [i \in 1..INODE_SIZE |-> IF i > 120 THEN 0 ELSE b[i]]
  IN [ino EXCEPT !.inode_crc = crc32(tmp, 120) \o <<0, 0, 0, 0>>]

\* mkfs_adder.c: zero the field, hash sizeof(*in) bytes.
adder_inode_crc_finalize(ino) ==
  LET z == [ino EXCEPT !.inode_crc = <<0, 0, 0, 0, 0, 0, 0, 0>>]
  IN [z EXCEPT !.inode_crc = crc32(InodeBytes(z), INODE_SIZE) \o <<0, 0, 0, 0>>]

RECURSIVE XorRange(_, _, _)
XorRange(p, lo, hi) ==
  IF lo > hi THEN 0
  ELSE IF lo = hi THEN p[lo]
  ELSE LET mid == (lo + hi) \div 2
       IN Xor8(XorRange(p, lo, mid), XorRange(p, mid + 1, hi))

dirent_checksum_finalize_no_name(de) ==
  [de EXCEPT !.checksum = XorRange(DirentBytes(de), 1, 5)]

dirent_checksum_finalize(de) ==
  [de EXCEPT !.checksum = XorRange(DirentBytes(de), 1, 63)]

\* ------------------------------------------------------------------------
\* Bitmap helpers (bit idx is bit idx&7 of byte idx>>3)
\* ------------------------------------------------------------------------
bitmap_set_off_by_one(bm, idx) == bm \cup {idx + 1}

bitmap_set(bm, idx) == bm \cup {idx}

bitmap_test(bm, idx) == idx \in bm

bitmap_flz(bm, bits) ==
  IF \E i \in 0..(bits - 1) : ~bitmap_test(bm, i)
    THEN CHOOSE i \in 0..(bits - 1) :
           /\ ~bitmap_test(bm, i)
           /\ \A j \in (i + 1)..(bits - 1) : bitmap_test(bm, j)
    ELSE -1

bitmap_ffz(bm, bits) ==
  IF \E i \in 0..(bits - 1) : ~bitmap_test(bm, i)
    THEN CHOOSE i \in 0..(bits - 1) :
           /\ ~bitmap_test(bm, i)
           /\ \A j \in 0..(i - 1) : bitmap_test(bm, j)
    ELSE -1

\* ------------------------------------------------------------------------
\* C string helpers on NUL-free base names and fixed name fields
\* ------------------------------------------------------------------------
CharAt(s, i) == IF i <= Len(s) THEN s[i] ELSE 0

strncpy(dst, src, n) ==
  [i \in 1..Len(dst) |-> IF i <= n THEN CharAt(src, i) ELSE dst[i]]

\* 0 when the strings agree up to n bytes or up to a common NUL, else the
\* difference at the first differing byte.
strncmp(a, b, n) ==
  LET diff == {i \in 1..n : CharAt(a, i) # CharAt(b, i)}
      d == CHOOSE i \in diff : \A j \in diff : i <= j
  IN IF diff = {} THEN 0
     ELSE IF \E k \in 1..(d - 1) : CharAt(a, k) = 0 THEN 0
     ELSE CharAt(a, d) - CharAt(b, d)

\* ------------------------------------------------------------------------
\* mkfs_builder.c main
\* ------------------------------------------------------------------------
BuilderArgsValid_any_inodes(size_kib, inode_count) ==
  ~(size_kib < 180 \/ size_kib > 4096 \/ (size_kib % 4) # 0)

BuilderArgsValid_any_size(size_kib, inode_count) ==
  ~(size_kib < 180 \/ size_kib > 4096
    \/ inode_count < 128 \/ inode_count > 512)

BuilderArgsValid(size_kib, inode_count) ==
  ~(size_kib < 180 \/ size_kib > 4096 \/ (size_kib % 4) # 0
    \/ inode_count < 128 \/ inode_count > 512)

total_blocks_of(size_kib) == (size_kib * 1024) \div BS

inode_table_blocks_floor(inode_count) == (inode_count * INODE_SIZE) \div BS

inode_table_blocks_of(inode_count) ==
  ((inode_count * INODE_SIZE) + (BS - 1)) \div BS

data_region_start_of(inode_count) == 3 + inode_table_blocks_of(inode_count)

BuilderLayoutValid(size_kib, inode_count) ==
  /\ ~(total_blocks_of(size_kib) < 4)
  /\ ~(data_region_start_of(inode_count) >= total_blocks_of(size_kib))

BuilderRoot(inode_count, now) ==
  builder_inode_crc_finalize(
    [ZeroInode EXCEPT !.mode = MODE_DIR, !.links = 2,
                      !.size_bytes = 2 * DIRENT_SIZE,
                      !.atime = now, !.mtime = now, !.ctime = now,
                      !.direct = [i \in 1..DIRECT_MAX |->
                                    IF i = 1 THEN data_region_start_of(inode_count) ELSE 0],
                      !.proj_id = PROJ_ID])

BuilderDirent_type_file(name) ==
  dirent_checksum_finalize(
    [ZeroDirent EXCEPT !.inode_no = ROOT_INO, !.type = 1,
                       !.name = strncpy(Zeros(NAME_LEN), name, NAME_LEN - 1)])

BuilderDirent(name) ==
  dirent_checksum_finalize(
    [ZeroDirent EXCEPT !.inode_no = ROOT_INO, !.type = 2,
                       !.name = strncpy(Zeros(NAME_LEN), name, NAME_LEN - 1)])

BuilderSb(size_kib, inode_count, now, stack) ==
  builder_superblock_crc_finalize(
    [ZeroSb EXCEPT !.magic = MAGIC, !.version = 1, !.block_size = BS,
                   !.total_blocks = total_blocks_of(size_kib),
                   !.inode_count = inode_count,
                   !.inode_bitmap_start = 1, !.inode_bitmap_blocks = 1,
                   !.data_bitmap_start = 2, !.data_bitmap_blocks = 1,
                   !.inode_table_start = 3,
                   !.inode_table_blocks = inode_table_blocks_of(inode_count),
                   !.data_region_start = data_region_start_of(inode_count),
                   !.data_region_blocks =
                      total_blocks_of(size_kib) - data_region_start_of(inode_count),
                   !.root_inode = ROOT_INO, !.mtime_epoch = now, !.flags = 0],
    stack)

\* Bytes written by the fwrite calls: block 0, the two bitmap blocks, the
\* inode table and its padding, the data region.
BuilderWritten(size_kib, inode_count) ==
  LET it_bytes == inode_count * INODE_SIZE
      it_pad == inode_table_blocks_of(inode_count) * BS - it_bytes
      data_bytes == (total_blocks_of(size_kib) - data_region_start_of(inode_count)) * BS
  IN BS + BS + BS + it_bytes + it_pad + data_bytes

BuilderImage(size_kib, inode_count, now, stack) ==
  [exists |-> TRUE,
   nbytes |-> BuilderWritten(size_kib, inode_count),
   sb |-> BuilderSb(size_kib, inode_count, now, stack),
   inode_bm |-> bitmap_set({}, 0),
   data_bm |-> bitmap_set({}, 0),
   itab |-> (0 :> BuilderRoot(inode_count, now)),
   data |-> (data_region_start_of(inode_count) :>
               DirBlock([k \in 1..(BS \div DIRENT_SIZE) |->
                           IF k = 1 THEN BuilderDirent(<<46>>)
                           ELSE IF k = 2 THEN BuilderDirent(<<46, 46>>)
                           ELSE ZeroDirent]))]

BuilderMain(size_kib, inode_count, now, stack) ==
  IF ~BuilderArgsValid(size_kib, inode_count)
    THEN [rc |-> 2, err |-> "UsageError", written |-> FALSE, out |-> NoImage]
  ELSE IF ~BuilderLayoutValid(size_kib, inode_count)
    THEN [rc |-> 2, err |-> "LayoutError", written |-> FALSE, out |-> NoImage]
  ELSE [rc |-> 0, err |-> "None", written |-> TRUE,
        out |-> BuilderImage(size_kib, inode_count, now, stack)]

\* ------------------------------------------------------------------------
\* mkfs_adder.c main
\* ------------------------------------------------------------------------
blocks_needed_floor(fsz) == fsz \div BS

blocks_needed_of(fsz) == (fsz + (BS - 1)) \div BS

\* Allocate data blocks (first-fit); i counts the blocks taken so far.
RECURSIVE AllocBlocks(_, _, _, _, _)
AllocBlocks(sb, data_bm, direct, i, blocks_needed) ==
  IF ~(i < blocks_needed) THEN [ok |-> TRUE, data_bm |-> data_bm, direct |-> direct]
  ELSE LET idx == bitmap_ffz(data_bm, sb.data_region_blocks)
       IN IF idx < 0
            THEN [ok |-> FALSE, data_bm |-> data_bm, direct |-> direct]
            ELSE AllocBlocks(sb, bitmap_set(data_bm, idx),
                             [direct EXCEPT ![i + 1] = sb.data_region_start + idx],
                             i + 1, blocks_needed)

\* The root directory block as 64 entries (an unwritten block is zero).
DentAt(img, b) ==
  IF b \in DOMAIN img.data /\ img.data[b].kind = "dirents"
    THEN img.data[b].dent
    ELSE [k \in 1..(BS \div DIRENT_SIZE) |-> ZeroDirent]

\* Duplicate filename check & find free slot: one iteration of the loop on
\* entry i (C index), then the loop over entries lo..hi.  st.dup is the
\* early return.
ScanStep_uncounted(dent, base, i, st) ==
  IF st.dup THEN st
  ELSE IF dent[i + 1].inode_no # 0
    THEN [dup |-> strncmp(dent[i + 1].name, base, NAME_LEN) = 0,
          slot |-> st.slot, used_entries |-> st.used_entries]
  ELSE IF st.slot < 0
    THEN [st EXCEPT !.slot = i]
  ELSE st

ScanStep(dent, base, i, st) ==
  IF st.dup THEN st
  ELSE IF dent[i + 1].inode_no # 0
    THEN [dup |-> strncmp(dent[i + 1].name, base, NAME_LEN) = 0,
          slot |-> st.slot, used_entries |-> st.used_entries + 1]
  ELSE IF st.slot < 0
    THEN [st EXCEPT !.slot = i]
  ELSE st

RECURSIVE ScanRange(_, _, _, _, _)
ScanRange(dent, base, lo, hi, st) ==
  IF lo > hi THEN st
  ELSE IF lo = hi THEN ScanStep(dent, base, lo, st)
  ELSE LET mid == (lo + hi) \div 2
           left == ScanRange(dent, base, lo, mid, st)
       IN IF left.dup THEN left ELSE ScanRange(dent, base, mid + 1, hi, left)

ScanDir(dent, base) ==
  ScanRange(dent, base, 0, (BS \div DIRENT_SIZE) - 1,
            [dup |-> FALSE, slot |-> -1, used_entries |-> 0])

AdderInode_block_size(fsz, direct, now) ==
  adder_inode_crc_finalize(
    [ZeroInode EXCEPT !.mode = MODE_FILE, !.links = 1, !.uid = 0, !.gid = 0,
                      !.size_bytes = blocks_needed_of(fsz) * BS, !.proj_id = PROJ_ID,
                      !.atime = now, !.mtime = now, !.ctime = now,
                      !.direct = direct])

AdderInode(fsz, direct, now) ==
  adder_inode_crc_finalize(
    [ZeroInode EXCEPT !.mode = MODE_FILE, !.links = 1, !.uid = 0, !.gid = 0,
                      !.size_bytes = fsz, !.proj_id = PROJ_ID,
                      !.atime = now, !.mtime = now, !.ctime = now,
                      !.direct = direct])

RECURSIVE WriteData_no_offset(_, _, _, _, _, _)
WriteData_no_offset(data, direct, fid, fsz, i, blocks_needed) ==
  IF ~(i < blocks_needed) THEN data
  ELSE LET absb == direct[i + 1]
           remain == IF fsz > i * BS THEN fsz - i * BS ELSE 0
           tocopy == IF remain > BS THEN BS ELSE remain
           blk == FileBlock(fid, 0, tocopy)
       IN WriteData_no_offset((absb :> blk) @@ data, direct, fid, fsz, i + 1,
                              blocks_needed)

RECURSIVE WriteData_next_block(_, _, _, _, _, _)
WriteData_next_block(data, direct, fid, fsz, i, blocks_needed) ==
  IF ~(i < blocks_needed) THEN data
  ELSE LET absb == direct[i + 1] + 1
           remain == IF fsz > i * BS THEN fsz - i * BS ELSE 0
           tocopy == IF remain > BS THEN BS ELSE remain
           blk == FileBlock(fid, i * BS, tocopy)
       IN WriteData_next_block((absb :> blk) @@ data, direct, fid, fsz, i + 1,
                               blocks_needed)

\* Write file data to allocated blocks.
RECURSIVE WriteData(_, _, _, _, _, _)
WriteData(data, direct, fid, fsz, i, blocks_needed) ==
  IF ~(i < blocks_needed) THEN data
  ELSE LET absb == direct[i + 1]
           remain == IF fsz > i * BS THEN fsz - i * BS ELSE 0
           tocopy == IF remain > BS THEN BS ELSE remain
           blk == FileBlock(fid, i * BS, tocopy)
       IN WriteData((absb :> blk) @@ data, direct, fid, fsz, i + 1, blocks_needed)

AdderDirent(new_ino, base) ==
  dirent_checksum_finalize(
    [ZeroDirent EXCEPT !.inode_no = new_ino, !.type = 1,
                       !.name = strncpy(Zeros(NAME_LEN), base, NAME_LEN - 1)])

AdderFail(rc, err, buf) ==
  [rc |-> rc, err |-> err, written |-> FALSE, buf |-> buf, out |-> NoImage,
   new_ino |-> 0, slot |-> -1]

\* The whole run on the loaded buffer img: result code, buffer at exit and,
\* when written, the bytes written to the output path.
AdderMain(img, base, fsz, fid, now) ==
  IF ~img.exists \/ img.nbytes <= 0 THEN AdderFail(1, "IOFailure", img)
  ELSE IF img.sb.block_size # BS \/ img.sb.magic # MAGIC
    THEN AdderFail(2, "FormatMismatch", img)
  ELSE
  LET sb == img.sb
      free_in == bitmap_ffz(img.inode_bm, sb.inode_count)
      new_ino == free_in + 1
      blocks_needed == blocks_needed_of(fsz)
  IN
  IF free_in < 0 THEN AdderFail(1, "NoFreeInode", img)
  ELSE IF blocks_needed > DIRECT_MAX THEN AdderFail(1, "FileTooLarge", img)
  ELSE
  LET al == AllocBlocks(sb, img.data_bm, [i \in 1..DIRECT_MAX |-> 0], 0, blocks_needed)
      buf1 == [img EXCEPT !.data_bm = al.data_bm]
      direct == al.direct
      root == InodeAt(buf1, 0)
      first_dir_block == root.direct[1]
      dent == DentAt(buf1, first_dir_block)
      sc == ScanDir(dent, base)
  IN
  IF ~al.ok THEN AdderFail(1, "NoFreeDataBlocks", buf1)
  ELSE IF first_dir_block = 0 THEN AdderFail(1, "RootMissing", buf1)
  ELSE IF sc.dup THEN AdderFail(1, "AlreadyExists", buf1)
  ELSE IF sc.slot < 0 THEN AdderFail(1, "DirectoryFull", buf1)
  ELSE
  LET inode == AdderInode(fsz, direct, now)
      itab2 == (free_in :> inode) @@ buf1.itab
      data3 == WriteData(buf1.data, direct, fid, fsz, 0, blocks_needed)
      de == AdderDirent(new_ino, base)
      dent4 == [DentAt([buf1 EXCEPT !.data = data3], first_dir_block)
                  EXCEPT ![sc.slot + 1] = de]
      data4 == (first_dir_block :> DirBlock(dent4)) @@ data3
      root5 == adder_inode_crc_finalize(
                 [itab2[0] EXCEPT !.links = @ + 1,
                                  !.size_bytes = (sc.used_entries + 1) * DIRENT_SIZE])
      itab5 == [itab2 EXCEPT ![0] = root5]
      sb6 == adder_superblock_crc_finalize([sb EXCEPT !.mtime_epoch = now])
      buf6 == [exists |-> TRUE, nbytes |-> img.nbytes, sb |-> sb6,
               inode_bm |-> bitmap_set(buf1.inode_bm, free_in),
               data_bm |-> buf1.data_bm, itab |-> itab5, data |-> data4]
  IN [rc |-> 0, err |-> "None", written |-> TRUE, buf |-> buf6, out |-> buf6,
      new_ino |-> new_ino, slot |-> sc.slot]

\* ------------------------------------------------------------------------
\* Inputs
\* ------------------------------------------------------------------------
Rep(c, n) == [i \in 1..n |-> c]

\* (size_kib, inode_count) given to the initializer, valid and invalid.
MkfsArgs ==
  {<<180, 128>>, <<184, 130>>, <<4096, 512>>,
   <<176, 128>>, <<182, 128>>, <<4100, 128>>, <<180, 127>>, <<180, 513>>}

\* The BS-4-116 bytes the stack holds past the initializer's local sb:
\* all zero, or all of another value.
StackFill == {0, 165}

StackTail(g) == Rep(g, BS - 4 - SB_SIZE)

\* (size_kib, inode_count) around every limit of the argument validation;
\* MkfsArgs is a subset.
LayoutSizes == {176, 180, 181, 182, 184, 188, 1024, 4092, 4096, 4100}

LayoutInodes == {32, 127, 128, 129, 130, 160, 161, 256, 511, 512, 513}

LayoutArgs == LayoutSizes \X LayoutInodes

\* The initializer's runs on the inputs above (it reads nothing else).
BuilderRuns ==
  [a \in LayoutArgs \X StackFill |->
     BuilderMain(a[1][1], a[1][2], Epoch, StackTail(a[2]))] @@ <<>>

\* Base names: "a", "b", "a"x57, "a"x57 "b" (58 bytes), "a"x58 "b" (59).
NameA == <<97>>

NameB == <<98>>

Name57 == Rep(97, NAME_LEN - 1)

Name58 == Rep(97, NAME_LEN - 1) \o <<98>>

Name59 == Rep(97, NAME_LEN) \o <<98>>

FreshSizes == {0, 1, BS, BS + 1, 5000, DIRECT_MAX * BS, DIRECT_MAX * BS + 1}

\* (base name, size) of the file given to the inserter when the image holds
\* n inserted files: every size on a fresh image, then the files that
\* collide, fill the data region or are too large.
Files(n) ==
  IF n = 0
    THEN ({NameA} \X FreshSizes)
         \cup ({Name57, Name58, Name59} \X {0, DIRECT_MAX * BS})
  ELSE IF n = 1
    THEN ({NameA, Name57, Name58, Name59} \X {5000, DIRECT_MAX * BS})
         \cup {<<NameA, DIRECT_MAX * BS + 1>>}
  ELSE {<<NameB, 5000>>, <<Name58, 5000>>, <<NameB, DIRECT_MAX * BS + 1>>}

FileSeeds == {7}

\* (magic, block_size) at the head of an input file that is not a MiniVSFS
\* image, the rest of the file being that of a fresh image.
OtherHeaders == {<<0, BS>>, <<MAGIC, 512>>, <<0, 0>>}

OtherInput(h) ==
  [BuilderRuns[<<<<180, 128>>, 0>>].out
     EXCEPT !.sb.magic = h[1], !.sb.block_size = h[2]]

\* ------------------------------------------------------------------------
\* State
\* ------------------------------------------------------------------------
VARIABLES
  image,     \* the image file (NoImage while it does not exist)
  nadded,    \* successful inserts since the image was initialized
  last       \* the last run: program, arguments, exit status, buffers

vars == <<image, nadded, last>>

NoRun ==
  [op |-> "none", rc |-> 0, err |-> "None", size_kib |-> 0, inode_count |-> 0,
   base |-> <<>>, fsz |-> 0, fid |-> 0, input |-> NoImage,
   before |-> NoImage, buf |-> NoImage,
   pre_nadded |-> 0, new_ino |-> 0, slot |-> -1]

Init ==
  /\ image = NoImage
  /\ nadded = 0
  /\ last = NoRun

\* mkfs_builder --image <image> --size-kib size_kib --inodes inode_count
Mkfs(size_kib, inode_count, g) ==
  /\ nadded < MkfsOver
  /\ \E r \in {BuilderRuns[<<<<size_kib, inode_count>>, g>>]} :
     /\ image' = IF r.written THEN r.out ELSE image
     /\ nadded' = IF r.written THEN 0 ELSE nadded
     /\ last' = [NoRun EXCEPT !.op = "mkfs", !.rc = r.rc, !.err = r.err,
                              !.size_kib = size_kib, !.inode_count = inode_count,
                              !.before = image, !.pre_nadded = nadded]

\* mkfs_adder --input <image> --output <image> --file <dir>/base
Add(base, fsz, fid) ==
  /\ nadded < MaxFiles
  /\ \E r \in {AdderMain(image, base, fsz, fid, Epoch + nadded + 1)} :
     /\ image' = IF r.written THEN r.out ELSE image
     /\ nadded' = IF r.written THEN nadded + 1 ELSE nadded
     /\ last' = [NoRun EXCEPT !.op = "add", !.rc = r.rc, !.err = r.err,
                              !.base = base, !.fsz = fsz, !.fid = fid,
                              !.input = image,
                              !.before = image, !.buf = r.buf,
                              !.pre_nadded = nadded,
                              !.new_ino = r.new_ino, !.slot = r.slot]

\* mkfs_adder --input <other file> --output <image> --file <dir>/base
AddFrom(h, base, fsz, fid) ==
  \E r \in {AdderMain(OtherInput(h), base, fsz, fid, Epoch + nadded + 1)} :
     /\ image' = IF r.written THEN r.out ELSE image
     /\ nadded' = IF r.written THEN 1 ELSE nadded
     /\ last' = [NoRun EXCEPT !.op = "add_from", !.rc = r.rc, !.err = r.err,
                              !.base = base, !.fsz = fsz, !.fid = fid,
                              !.input = OtherInput(h),
                              !.before = image, !.buf = r.buf,
                              !.pre_nadded = nadded,
                              !.new_ino = r.new_ino, !.slot = r.slot]

Next ==
  \/ \E a \in MkfsArgs, g \in StackFill : Mkfs(a[1], a[2], g)
  \/ \E f \in Files(nadded), fid \in FileSeeds : Add(f[1], f[2], fid)
  \/ \E h \in OtherHeaders, fid \in FileSeeds : AddFrom(h, NameA, 5000, fid)

Spec == Init /\ [][Next]_vars

\* The initializer alone, on an image path that names no file yet, over
\* LayoutArgs.
MkfsNew(size_kib, inode_count, g) ==
  /\ ~image.exists
  /\ Mkfs(size_kib, inode_count, g)

NextLayout == \E a \in LayoutArgs, g \in StackFill : MkfsNew(a[1], a[2], g)

SpecLayout == Init /\ [][NextLayout]_vars

\* Filling an image: the smallest and the largest layout, and an inode
\* count below the directory's capacity (which the initializer refuses).
FillArgs == {<<180, 128>>, <<4096, 512>>, <<180, 32>>}

\* The n-th file of a batch has a two-byte name of its own.
FillName(n) == <<97 + (n \div 8), 48 + (n % 8)>>

\* A batch holds files of one size (no block, two blocks or DIRECT_MAX
\* blocks each); after a run that failed the next file is empty.
FillSizes ==
  IF nadded = 0 THEN {0, 5000, DIRECT_MAX * BS}
  ELSE IF last.rc # 0 THEN {0}
  ELSE {last.fsz}

\* mkfs_adder --input <image> --output <image> --file <dir>/base, as often
\* as asked.
AddFill(base, fsz, fid) ==
  \E r \in {AdderMain(image, base, fsz, fid, Epoch + nadded + 1)} :
     /\ image' = IF r.written THEN r.out ELSE image
     /\ nadded' = IF r.written THEN nadded + 1 ELSE nadded
     /\ last' = [NoRun EXCEPT !.op = "add", !.rc = r.rc, !.err = r.err,
                              !.base = base, !.fsz = fsz, !.fid = fid,
                              !.input = image,
                              !.before = image, !.buf = r.buf,
                              !.pre_nadded = nadded,
                              !.new_ino = r.new_ino, !.slot = r.slot]

NextFill ==
  \/ \E a \in FillArgs : MkfsNew(a[1], a[2], 0)
  \/ \E fsz \in FillSizes, fid \in FileSeeds : AddFill(FillName(nadded), fsz, fid)

SpecFill == Init /\ [][NextFill]_vars

\* The output file after fopen(outpath, "wb") has truncated it and the
\* fwrite of the buffer stored nothing.
EmptyFile == [NoImage EXCEPT !.exists = TRUE]

\* mkfs_adder run whose insert succeeds in the buffer and whose write of
\* the output fails on the host (full or failing storage): "write output",
\* exit status 1.
AddWriteFails(base, fsz, fid) ==
  /\ nadded < MaxFiles
  /\ \E r \in {AdderMain(image, base, fsz, fid, Epoch + nadded + 1)} :
     /\ r.written
     /\ image' = EmptyFile
     /\ nadded' = nadded
     /\ last' = [NoRun EXCEPT !.op = "add", !.rc = 1, !.err = "IOFailure",
                              !.base = base, !.fsz = fsz, !.fid = fid,
                              !.input = image,
                              !.before = image, !.buf = r.buf,
                              !.pre_nadded = nadded,
                              !.new_ino = r.new_ino, !.slot = r.slot]

\* Both programs on a host whose writes can fail.
NextIO ==
  \/ Next
  \/ \E f \in Files(nadded), fid \in FileSeeds : AddWriteFails(f[1], f[2], fid)

SpecIO == Init /\ [][NextIO]_vars

\* ------------------------------------------------------------------------
\* Views used by the properties
\* ------------------------------------------------------------------------
RootDent(img) == DentAt(img, InodeAt(img, 0).direct[1])

UsedEntries(img) ==
  {k \in 1..(BS \div DIRENT_SIZE) : RootDent(img)[k].inode_no # 0}

\* (inode index, pointer slot) pairs of allocated inodes that point at blk
DataRefs(img, blk) ==
  {r \in img.inode_bm \X (1..DIRECT_MAX) : InodeAt(img, r[1]).direct[r[2]] = blk}

InodeBitmapMatches(img) ==
  /\ img.inode_bm \subseteq 0..(img.sb.inode_count - 1)
  /\ \A i \in 0..(img.sb.inode_count - 1) :
       (i \in img.inode_bm) <=>
         (i + 1 = ROOT_INO
          \/ \E k \in UsedEntries(img) : RootDent(img)[k].inode_no = i + 1)

DataBitmapMatches(img) ==
  /\ img.data_bm \subseteq 0..(img.sb.data_region_blocks - 1)
  /\ \A j \in 0..(img.sb.data_region_blocks - 1) :
       (j \in img.data_bm) <=>
         Cardinality(DataRefs(img, img.sb.data_region_start + j)) = 1

CeilBlocks(S) == IF S % BS = 0 THEN S \div BS ELSE (S \div BS) + 1

\* The base name cut to the capacity of the name field, NUL-padded.
NameField(base) == [i \in 1..NAME_LEN |-> CharAt(base, i)]

\* Some non-free root entry of img carries the name stored for base.
NameExists(img, base) ==
  \E k \in UsedEntries(img) :
    RootDent(img)[k].name = AdderDirent(0, base).name

AddRan == last.op = "add" /\ last.before.exists

AddOk == AddRan /\ last.rc = 0

\* ------------------------------------------------------------------------
\* C1..C10
\* ------------------------------------------------------------------------
\* C1: in every image file left by the initializer and any sequence of
\* inserter runs, successful or failed, an inode bitmap bit i is set iff
\* inode i+1 is the root or is named by a non-free root entry, and a data
\* bitmap bit j is set iff block data_region_start+j is the target of
\* exactly one direct pointer of one allocated inode.
C1_BitmapsMatch ==
  image.exists => InodeBitmapMatches(image) /\ DataBitmapMatches(image)

\* a failed run that had set data bits in its buffer, over an image that
\* already holds an inserted file
C1_Witness ==
  /\ AddRan /\ last.rc # 0 /\ nadded >= 1
  /\ last.buf.data_bm # last.before.data_bm
  /\ image = last.before

\* C2: whenever the inserter fails in steps 1-5, the buffer at the moment
\* of failure equals the buffer as loaded.
C2_FailureLeavesBuffer ==
  (AddRan /\ last.rc # 0) => last.buf = last.before

\* C3: a file whose base name is already the name of a non-free root entry
\* is refused with AlreadyExists and the image is unchanged, for base names
\* of every length (stated for the files that reach the name check: at most
\* DIRECT_MAX blocks, and enough free data blocks).
C3_DuplicateRefused ==
  (/\ AddRan
   /\ NameExists(last.before, last.base)
   /\ last.err \notin {"FileTooLarge", "NoFreeDataBlocks"})
  => (last.err = "AlreadyExists" /\ image = last.before)

\* C4: no two non-free entries of the root directory block carry the same
\* stored name.
C4_NamesUnique ==
  image.exists =>
    \A j \in UsedEntries(image), k \in UsedEntries(image) :
      j # k => RootDent(image)[j].name # RootDent(image)[k].name

\* C5: a file that needs more than DIRECT_MAX blocks is refused with
\* FileTooLarge, and neither the buffer nor the image file differs from the
\* image before the attempt.
C5_TooLargeRefused ==
  (AddRan /\ last.fsz > DIRECT_MAX * BS)
  => /\ last.rc = 1 /\ last.err = "FileTooLarge"
     /\ last.buf = last.before
     /\ image = last.before

C5_Witness ==
  /\ AddRan /\ last.fsz > DIRECT_MAX * BS /\ nadded >= 1
  /\ last.err = "FileTooLarge"

\* C6: inserting a file of S <= DIRECT_MAX*BS bytes into a freshly
\* initialized image succeeds; the new inode has size_bytes = S, non-zero
\* direct pointers in exactly the leading ceil(S/BS) slots, file type and
\* link count 1.
C6_FreshInsert ==
  (AddRan /\ last.pre_nadded = 0 /\ last.fsz <= DIRECT_MAX * BS)
  => /\ last.rc = 0
     /\ last.new_ino >= 1
     /\ LET ino == InodeAt(image, last.new_ino - 1)
        IN /\ ino.size_bytes = last.fsz
           /\ \A k \in 1..DIRECT_MAX :
                (ino.direct[k] # 0) <=> (k <= CeilBlocks(last.fsz))
           /\ ino.mode = MODE_FILE
           /\ ino.links = 1

C6_Witness ==
  /\ AddOk /\ last.pre_nadded = 0 /\ last.fsz = BS + 1
  /\ InodeAt(image, last.new_ino - 1).direct[2] # 0

\* C7: after a successful insert the new root entry has the new inode's
\* number, type file, and a name field equal to the base name cut to the
\* NAME_LEN bytes of the field (NUL-padded when shorter, all NAME_LEN bytes
\* used when the base name has NAME_LEN bytes or more).
C7_EntryWritten ==
  AddOk =>
    LET de == RootDent(image)[last.slot + 1]
    IN /\ de.inode_no = last.new_ino
       /\ de.type = 1
       /\ de.name = NameField(last.base)

\* C8: every allocated inode stores the CRC-32 of its first 120 bytes in the
\* low 32 bits of inode_crc and zero in the upper 32 bits.
C8_InodeCrc120 ==
  image.exists =>
    \A i \in image.inode_bm :
      InodeAt(image, i).inode_crc
        = crc32(InodeBytes(InodeAt(image, i)), 120) \o <<0, 0, 0, 0>>

\* Block 0 as stored (the superblock, then zeros), checksum field zeroed.
Block0Zeroed(img) ==
  SbBytes([img.sb EXCEPT !.checksum = <<0, 0, 0, 0>>]) \o Zeros(BS - SB_SIZE)

\* C9: the superblock checksum of a freshly initialized image equals the
\* checksum recomputed, over the initializer's BS-4 bytes, from the bytes
\* stored in block 0 with the checksum field zeroed.
C9_FreshSbChecksum ==
  (last.op = "mkfs" /\ last.rc = 0)
  => image.sb.checksum = crc32(Block0Zeroed(image), BS - 4)

\* C10: both programs hash the same byte range of block 0, so the stored
\* superblock checksum validates under the initializer's range (BS-4 bytes)
\* and under the inserter's range (sizeof(superblock_t) bytes) alike,
\* whichever program wrote it.
C10_OneSbConvention ==
  image.exists =>
    /\ image.sb.checksum = crc32(Block0Zeroed(image), BS - 4)
    /\ image.sb.checksum = crc32(Block0Zeroed(image), SB_SIZE)

\* ------------------------------------------------------------------------
\* C11..C20
\* ------------------------------------------------------------------------
MkfsOk == last.op = "mkfs" /\ last.rc = 0

C12_FreshImage ==
  MkfsOk =>
    /\ image.inode_bm = {0}
    /\ image.data_bm = {0}
    /\ InodeAt(image, 0).mode = MODE_DIR
    /\ InodeAt(image, 0).links = 2
    /\ InodeAt(image, 0).size_bytes = 2 * DIRENT_SIZE
    /\ \A i \in 1..DIRECT_MAX :
         InodeAt(image, 0).direct[i]
           = IF i = 1 THEN image.sb.data_region_start ELSE 0
    /\ \A i \in 1..(image.sb.inode_count - 1) : InodeAt(image, i) = ZeroInode
    /\ DOMAIN image.data = {image.sb.data_region_start}
    /\ image.data[image.sb.data_region_start].kind = "dirents"
    /\ LET dent == image.data[image.sb.data_region_start].dent
       IN /\ DOMAIN dent = 1..(BS \div DIRENT_SIZE)
          /\ dent[1].inode_no = 1 /\ dent[1].type = 2
          /\ dent[1].name = NameField(<<46>>)
          /\ dent[2].inode_no = 1 /\ dent[2].type = 2
          /\ dent[2].name = NameField(<<46, 46>>)
          /\ \A k \in 3..(BS \div DIRENT_SIZE) : dent[k] = ZeroDirent

\* a fresh image written over an image of another layout
C12_Witness ==
  /\ MkfsOk /\ last.before.exists
  /\ last.before.sb.inode_count = 512
  /\ image.sb.inode_count = 130

CeilDiv(a, b) == IF a % b = 0 THEN a \div b ELSE (a \div b) + 1

\* The argument ranges the initializer documents.
ArgsInRange(size_kib, inode_count) ==
  /\ size_kib \in 180..4096 /\ size_kib % 4 = 0
  /\ inode_count \in 128..512

\* C13: for every size_kib in 180..4096 that is a multiple of 4 and every
\* inode_count in 128..512 the initializer succeeds and records
\* total_blocks = size_kib*1024/4096, the bitmaps at blocks 1 and 2, the
\* inode table at block 3 with ceil(inode_count*128/4096) blocks, the data
\* region right after it up to the last block, and the image file is
\* total_blocks*4096 = size_kib*1024 bytes long.
C13_Layout ==
  (last.op = "mkfs" /\ ArgsInRange(last.size_kib, last.inode_count))
  => /\ last.rc = 0
     /\ LET tb == (last.size_kib * 1024) \div 4096
            itb == CeilDiv(last.inode_count * 128, 4096)
        IN /\ image.sb.total_blocks = tb
           /\ image.sb.inode_bitmap_start = 1
           /\ image.sb.data_bitmap_start = 2
           /\ image.sb.inode_table_start = 3
           /\ image.sb.inode_table_blocks = itb
           /\ image.sb.data_region_start = 3 + itb
           /\ image.sb.data_region_blocks = tb - (3 + itb)
           /\ image.nbytes = tb * 4096
           /\ image.nbytes = last.size_kib * 1024

\* an inode table whose last block is partly used, in the largest image
\* but one
C13_Witness ==
  /\ MkfsOk /\ last.size_kib = 4092 /\ last.inode_count = 129
  /\ image.sb.inode_table_blocks = 5
  /\ image.nbytes = 4092 * 1024

\* C14: when size_kib is outside 180..4096 or not a multiple of 4, or
\* inode_count is outside 128..512, the initializer exits with status 2
\* and the image path holds what it held before (nothing, or the earlier
\* image unchanged).
C14_InvalidArgsRefused ==
  (last.op = "mkfs" /\ ~ArgsInRange(last.size_kib, last.inode_count))
  => /\ last.rc = 2
     /\ image = last.before

\* a size that is in range but not a multiple of 4, given over an
\* existing image
C14_Witness ==
  /\ last.op = "mkfs" /\ last.size_kib = 182 /\ last.inode_count = 128
  /\ last.rc = 2
  /\ image.exists /\ image.sb.total_blocks = 1024

\* C15: an input whose block size field is not 4096 or whose magic is not
\* the MiniVSFS constant makes the inserter fail with FormatMismatch and
\* exit status 1.
C15_FormatMismatchExit1 ==
  (/\ last.op \in {"add", "add_from"}
   /\ last.input.exists /\ last.input.nbytes > 0
   /\ (last.input.sb.block_size # 4096 \/ last.input.sb.magic # 1297503046))
  => /\ last.err = "FormatMismatch"
     /\ last.rc = 1

\* C16: an inserter run either succeeds, and the output path then holds
\* the whole buffer it built, or fails, and the output path holds exactly
\* what it held before the run.
C16_OutputAllOrNothing ==
  (last.op \in {"add", "add_from"})
  => \/ last.rc = 0 /\ image = last.buf /\ image.nbytes = last.input.nbytes
     \/ last.rc # 0 /\ image = last.before

\* The n-th lowest index (n >= 1) that is not in bm.
NthClear(bm, n) ==
  CHOOSE i \in 0..(Cardinality(bm) + n) :
    /\ i \notin bm
    /\ Cardinality({j \in 0..(i - 1) : j \notin bm}) = n - 1

\* C17: a successful insert takes the lowest clear inode bitmap bit
\* (inode number = index + 1) and, for its k = ceil(S/4096) blocks, the k
\* lowest clear data bitmap bits in ascending order, direct[i] being
\* data_region_start + the i-th of them; a 5000-byte file inserted into a
\* fresh image takes data bits 1 and 2.
C17_FirstFit ==
  AddOk =>
    LET b == last.before
        ino == InodeAt(image, last.new_ino - 1)
        k == CeilBlocks(last.fsz)
    IN /\ last.new_ino = NthClear(b.inode_bm, 1) + 1
       /\ image.inode_bm = b.inode_bm \cup {NthClear(b.inode_bm, 1)}
       /\ \A i \in 1..k :
            ino.direct[i] = b.sb.data_region_start + NthClear(b.data_bm, i)
       /\ image.data_bm = b.data_bm \cup {NthClear(b.data_bm, i) : i \in 1..k}
       /\ (last.pre_nadded = 0 /\ last.fsz = 5000)
            => image.data_bm \ b.data_bm = {1, 2}

\* a 5000-byte file inserted after a 12-block file: bits 13 and 14
C17_Witness ==
  /\ AddOk /\ last.fsz = 5000 /\ last.pre_nadded = 1
  /\ image.data_bm \ last.before.data_bm = {13, 14}
  /\ last.new_ino = 3

\* C18: in the image left by the initializer and by every successful
\* insert the root inode's size_bytes is 64 times the number of non-free
\* root entries and its link count is 2 plus the number of files inserted
\* since the image was initialized; a successful insert adds exactly 1 to
\* the link count and exactly 64 to the size.
C18_RootSizeLinks ==
  /\ image.exists =>
       /\ InodeAt(image, 0).size_bytes = 64 * Cardinality(UsedEntries(image))
       /\ InodeAt(image, 0).links = 2 + nadded
  /\ AddOk =>
       /\ InodeAt(image, 0).links = InodeAt(last.before, 0).links + 1
       /\ InodeAt(image, 0).size_bytes = InodeAt(last.before, 0).size_bytes + 64

\* the third insert
C18_Witness ==
  /\ AddOk /\ nadded = 3
  /\ InodeAt(image, 0).links = 5
  /\ InodeAt(image, 0).size_bytes = 320

\* The block named by pointer i (from 1) of the inode inserted last.
NewBlock(i) == image.data[InodeAt(image, last.new_ino - 1).direct[i]]

\* After a successful insert of S bytes the blocks named by the new
\* inode's pointers, in pointer order, start with the S bytes of the file.
RoundTrip ==
  \A i \in 1..CeilBlocks(last.fsz) :
    /\ InodeAt(image, last.new_ino - 1).direct[i] \in DOMAIN image.data
    /\ NewBlock(i).kind = "bytes"
    /\ \A j \in 0..(BS - 1) :
         ((i - 1) * BS + j < last.fsz)
           => BlockByte(NewBlock(i), j) = FileByte(last.fid, (i - 1) * BS + j)

\* C19 as stated: round trip, and every byte of the last allocated block
\* at offset S mod 4096 or beyond is zero.
C19_DataRoundTrip ==
  AddOk =>
    /\ RoundTrip
    /\ CeilBlocks(last.fsz) > 0 =>
         \A j \in 0..(BS - 1) :
           (j >= last.fsz % BS) => BlockByte(NewBlock(CeilBlocks(last.fsz)), j) = 0

\* C19 amended: round trip, and every byte of the last allocated block at
\* offset S - 4096*(k-1) or beyond is zero, k = ceil(S/4096) being the
\* number of blocks (no such byte when S is a multiple of 4096).
C19_DataRoundTripPartial ==
  AddOk =>
    /\ RoundTrip
    /\ CeilBlocks(last.fsz) > 0 =>
         \A j \in 0..(BS - 1) :
           (j >= last.fsz - BS * (CeilBlocks(last.fsz) - 1))
             => BlockByte(NewBlock(CeilBlocks(last.fsz)), j) = 0

\* a two-block file whose second block holds 904 bytes and 3192 zeros
C19_Witness ==
  /\ AddOk /\ last.fsz = 5000 /\ last.pre_nadded = 1
  /\ NewBlock(2).n = 904
  /\ BlockByte(NewBlock(2), 903) = FileByte(last.fid, 4999)
  /\ BlockByte(NewBlock(2), 904) = 0

\* C20: a successful insert changes only one previously clear inode
\* bitmap bit, the previously clear data bitmap bits of the blocks it
\* allocates, the inode record it claims, those data blocks, one previously
\* free root entry, the root inode's links, size and checksum, and the
\* superblock's mtime and checksum; the layout fields, every other inode,
\* every other data block and every other root entry stay as they were.
C20_Frame ==
  AddOk =>
    LET b == last.before
        ni == last.new_ino - 1
        newblks == {b.sb.data_region_start + j : j \in image.data_bm \ b.data_bm}
        rootblk == InodeAt(b, 0).direct[1]
    IN /\ ni \notin b.inode_bm
       /\ image.inode_bm = b.inode_bm \cup {ni}
       /\ b.data_bm \subseteq image.data_bm
       /\ newblks = {InodeAt(image, ni).direct[i] : i \in 1..DIRECT_MAX} \ {0}
       /\ rootblk \notin newblks
       /\ \A i \in (0..(b.sb.inode_count - 1)) \ {0, ni} :
            InodeAt(image, i) = InodeAt(b, i)
       /\ DOMAIN image.itab \subseteq 0..(b.sb.inode_count - 1)
       /\ [InodeAt(image, 0) EXCEPT !.links = InodeAt(b, 0).links,
                                    !.size_bytes = InodeAt(b, 0).size_bytes,
                                    !.inode_crc = InodeAt(b, 0).inode_crc]
            = InodeAt(b, 0)
       /\ [image.sb EXCEPT !.mtime_epoch = b.sb.mtime_epoch,
                           !.checksum = b.sb.checksum] = b.sb
       /\ image.nbytes = b.nbytes
       /\ \A blk \in (DOMAIN image.data \cup DOMAIN b.data) \ (newblks \cup {rootblk}) :
            /\ blk \in DOMAIN image.data /\ blk \in DOMAIN b.data
            /\ image.data[blk] = b.data[blk]
       /\ RootDent(b)[last.slot + 1] = ZeroDirent
       /\ \A k \in (1..(BS \div DIRENT_SIZE)) \ {last.slot + 1} :
            RootDent(image)[k] = RootDent(b)[k]

\* the third insert, over two files that own data blocks
C20_Witness ==
  /\ AddOk /\ last.pre_nadded = 2 /\ last.fsz = 5000
  /\ Cardinality(last.before.data_bm) >= 3
  /\ Cardinality(image.data_bm \ last.before.data_bm) = 2

\* ------------------------------------------------------------------------
\* C21
\* ------------------------------------------------------------------------
\* C21: in an image made by the initializer and changed only by inserter
\* runs at most 62 inserts succeed, at most 63 inode bitmap bits are set,
\* no run fails for want of a free inode, and a run that fails for want of
\* room (files of at most DIRECT_MAX blocks under names not yet present)
\* fails with directory-full or no-free-data-blocks.
C21_DirectoryFillsFirst ==
  image.exists =>
    /\ nadded <= 62
    /\ Cardinality(image.inode_bm) <= 63
    /\ Cardinality(UsedEntries(image)) <= BS \div DIRENT_SIZE
    /\ AddRan => last.err # "NoFreeInode"
    /\ (AddRan /\ last.rc # 0)
         => last.err \in {"DirectoryFull", "NoFreeDataBlocks"}

\* the 63rd file refused by a directory that holds 62 files
C21_Witness ==
  /\ AddRan /\ last.err = "DirectoryFull"
  /\ nadded = 62
  /\ Cardinality(image.inode_bm) = 63
  /\ Cardinality(UsedEntries(image)) = 64
  /\ image.sb.inode_count = 128

====
